---- MODULE Spec2Model ----
(***************************************************************************)
(* Model of the Linker URL shortener (linker.go): the per-request redirect *)
(* decision of Linker.serve and the Listen / Close lifecycle, with the     *)
(* request handlers, the Listen caller, the Close caller, the background   *)
(* ListenAndServe goroutine and the OS signal source as concurrent         *)
(* processes; the administrative calls Add, Delete and List on the Links   *)
(* table; and the name validator isNameValid next to the path matcher of   *)
(* serve.                                                                  *)
(*                                                                         *)
(* Strings are sequences of one-character strings.  The behaviour of the   *)
(* Go standard library (database/sql, net/http, context, os/signal) is     *)
(* modelled at the call sites of linker.go, by its documented contract:    *)
(*   - sql.Stmt.Close waits for the QueryContext calls in progress on the  *)
(*     statement, marks it closed and is a no-op returning nil afterwards; *)
(*     a query on a closed statement fails at once;                        *)
(*   - sql.DB.Close marks the handle closed and is a no-op afterwards;     *)
(*   - a query bound to a context fails once the context is cancelled;     *)
(*   - http.Server.Shutdown closes the listeners, then waits until no      *)
(*     connection is active or its context is done (returning the context  *)
(*     error in that case); http.Server.Close drops every connection;      *)
(*   - ListenAndServe returns ErrServerClosed after Shutdown or Close;     *)
(*   - a signal is sent without blocking on the channel given to Notify.   *)
(***************************************************************************)
EXTENDS Integers, Sequences, FiniteSets, TLC

\* ------------------------------------------------------------------ bounds
NumHandlers == 2
MaxUriLen == 3
MaxNameLen == 2
MaxFaults == 1

Handlers == 1..NumHandlers

\* --------------------------------------------------------------- constants
StatusTemporaryRedirect == 307
StatusInternalServerError == 500

\* The configured default redirect target (l.url).
DefaultURL == <<"D">>

\* Characters a request URI is drawn from: the slash, two alphanumerics, and
\* one character that html.EscapeString rewrites.
UriChars == {"/", "a", "b", "&"}

\* [a-zA-Z0-9], the character class of regCheckURL.
Alnum ==
  {"a","b","c","d","e","f","g","h","i","j","k","l","m",
   "n","o","p","q","r","s","t","u","v","w","x","y","z",
   "A","B","C","D","E","F","G","H","I","J","K","L","M",
   "N","O","P","Q","R","S","T","U","V","W","X","Y","Z",
   "0","1","2","3","4","5","6","7","8","9"}

\* The rows of the Links table: LinkName -> LinkURL.  "ab" has an empty URL;
\* every other name has no row.
LinkNames == {<<"a">>, <<"b">>, <<"a","b">>}
Links ==
  [k \in LinkNames |->
     IF k = <<"a">> THEN <<"X">>
     ELSE IF k = <<"b">> THEN <<"Y">>
     ELSE <<>>]

\* ---------------------------------------------------------- pure functions
\* html.EscapeString on one character.
EscapeChar(c) ==
  CASE c = "&"  -> <<"&","a","m","p",";">>
    [] c = "<"  -> <<"&","l","t",";">>
    [] c = ">"  -> <<"&","g","t",";">>
    [] c = "\"" -> <<"&","#","3","4",";">>
    [] c = "'"  -> <<"&","#","3","9",";">>
    [] OTHER    -> <<c>>

RECURSIVE EscapeString(_)
EscapeString(u) ==
  IF u = <<>> THEN <<>> ELSE EscapeChar(Head(u)) \o EscapeString(Tail(u))

\* Length of the longest run of alphanumerics of s that starts at index i.
RECURSIVE AlnumRun(_, _)
AlnumRun(s, i) ==
  IF i <= Len(s) /\ s[i] \in Alnum THEN 1 + AlnumRun(s, i + 1) ELSE 0

\* FindStringIndex for an expression without the +: one alphanumeric.
FindStringIndexOne(s) ==
  IF Len(s) >= 2 /\ s[1] = "/" /\ s[2] \in Alnum THEN <<0, 2>> ELSE <<>>

\* regCheckURL.FindStringIndex(s) for `(^\/[a-zA-Z0-9]+)`: <<>> stands for
\* nil, <<0, e>> for the span [0, e).
FindStringIndex(s) ==
  IF Len(s) >= 1 /\ s[1] = "/" /\ AlnumRun(s, 2) >= 1
  THEN <<0, 1 + AlnumRun(s, 2)>>
  ELSE <<>>

\* The Go slice s[a:b] (0-based, b exclusive).
Slice(s, a, b) == SubSeq(s, a + 1, b)

\* The printable ASCII characters in code order, from the space (32) to the
\* tilde (126); "grave" stands for the grave accent (96).
Printable ==
  <<" ","!","\"","#","$","%","&","'","(",")","*","+",",","-",".","/",
    "0","1","2","3","4","5","6","7","8","9",":",";","<","=",">","?",
    "@","A","B","C","D","E","F","G","H","I","J","K","L","M","N","O",
    "P","Q","R","S","T","U","V","W","X","Y","Z","[","\\","]","^","_",
    "grave","a","b","c","d","e","f","g","h","i","j","k","l","m","n","o",
    "p","q","r","s","t","u","v","w","x","y","z","{","|","}","~">>

\* Two control characters: the tab (9) and the line feed (10).
Controls == {"\t", "\n"}

\* The code point of a character.
Code(c) ==
  IF c = "\t" THEN 9
  ELSE IF c = "\n" THEN 10
  ELSE 31 + (CHOOSE i \in 1..Len(Printable) : Printable[i] = c)

\* The cases of the switch of isNameValid, lines 174-177.
Blacklist ==
  {":", ";", "<", "=", ">", "?", "@", "[", "]", "\\", "^", "_", "grave",
   "{", "|", "}", "~"}

\* isNameValid without its switch: the range check alone.
RECURSIVE isNameInRange(_)
isNameInRange(s) ==
  IF s = <<>> THEN TRUE
  ELSE LET v == Code(Head(s))
       IN  IF v < 48 \/ v > 123 THEN FALSE
           ELSE isNameInRange(Tail(s))

\* isNameValid, lines 169-181: every rune within 48..123 and off the
\* blacklist; TRUE for the empty string.
RECURSIVE isNameValid(_)
isNameValid(s) ==
  IF s = <<>> THEN TRUE
  ELSE LET v == Code(Head(s))
       IN  IF v < 48 \/ v > 123 THEN FALSE
           ELSE IF Head(s) \in Blacklist THEN FALSE
           ELSE isNameValid(Tail(s))

\* strings.TrimSpace: the white space at both ends removed.
RECURSIVE TrimSpace(_)
TrimSpace(u) ==
  IF u = <<>> THEN u
  ELSE IF Head(u) \in {" "} \cup Controls THEN TrimSpace(Tail(u))
  ELSE IF u[Len(u)] \in {" "} \cup Controls THEN TrimSpace(SubSeq(u, 1, Len(u) - 1))
  ELSE u

\* url.Parse returns an error; of its errors the model keeps the percent sign
\* that begins no escape.
ParseFails(u) == \E i \in 1..Len(u) : u[i] = "%"

\* URL.IsAbs: the URL begins with a scheme and a colon.
IsAbs(u) ==
  \E i \in 2..Len(u) : u[i] = ":" /\ \A j \in 1..(i - 1) : u[j] \in Alnum

\* Add, lines 306-312 and 318: the URL stored for u, with the scheme https
\* when u has none.
StoredURL(u) ==
  LET p == TrimSpace(u)
  IN  IF IsAbs(p) THEN p ELSE <<"h","t","t","p","s",":","/","/">> \o p

\* The HTTP responses of serve.  key is the lookup key (<<>> when no lookup
\* was made); looked tells whether the prepared statement was called.
RedirectPermanent(target, key, looked) ==
  [status |-> 301, target |-> target, body |-> <<>>,
   key |-> key, looked |-> looked]
Redirect(target, key, looked) ==
  [status |-> StatusTemporaryRedirect, target |-> target, body |-> <<>>,
   key |-> key, looked |-> looked]
ServerError(key) ==
  [status |-> StatusInternalServerError, target |-> <<>>, body |-> key,
   key |-> key, looked |-> TRUE]
NoResp ==
  [status |-> 0, target |-> <<>>, body |-> <<>>, key |-> <<>>, looked |-> FALSE]

\* serve, lines 365-376: TRUE when the request is answered with the default
\* redirect before any lookup.
ServeNoLookup(uri) ==
  LET s == EscapeString(uri)
      p == FindStringIndex(s)
  IN  \/ Len(uri) <= 1
      \/ p = <<>>
      \/ p[1] # 0
      \/ p[2] <= 1

\* The lookup key taken from the start of the match: s[0:p[1]].
ServeKeyWithSlash(uri) ==
  LET s == EscapeString(uri)
      p == FindStringIndex(s)
  IN  Slice(s, 0, p[2])

\* serve, line 377: the lookup key x = s[1:p[1]].
ServeKey(uri) ==
  LET s == EscapeString(uri)
      p == FindStringIndex(s)
  IN  Slice(s, 1, p[2])

\* serve, lines 388-395: the response once Scan stored n without error.
ServeFound(uri, n) ==
  LET s == EscapeString(uri)
      p == FindStringIndex(s)
      x == Slice(s, 1, p[2])
  IN  IF Len(n) = 0 THEN Redirect(DefaultURL, x, TRUE)
      ELSE IF p[2] < Len(s) THEN Redirect(n \o Slice(s, p[2], Len(s)), x, TRUE)
      ELSE Redirect(n, x, TRUE)

\* serve answering every lookup error like a missing row.
ServeErrorSwallowed(uri, err) == Redirect(DefaultURL, ServeKey(uri), TRUE)

\* serve, lines 378-387: the response when Scan returned err.
ServeError(uri, err) ==
  IF err = "ErrNoRows" THEN Redirect(DefaultURL, ServeKey(uri), TRUE)
  ELSE ServerError(ServeKey(uri))

\* The row the SELECT of sqlGet yields for key x from the rows t.
SelectRow(t, x) ==
  IF x \in DOMAIN t THEN [err |-> "nil", n |-> t[x]]
  ELSE [err |-> "ErrNoRows", n |-> <<>>]


\* -------------------------------------------------------------------- state
VARIABLES
  db,       \* l.db: "open" or "closed"; "nil" in a Linker not made by New
  get,      \* l.get: "nil", "open" or "closed"
  ctx,      \* l.ctx with l.cancel: "nil", "active" or "cancelled"
  server,   \* l.Server: "new", "serving", "draining" (Shutdown called, the
            \* connections accepted so far still open) or "closed" (shut
            \* down with no connection left)
  sig,      \* the channel s of Listen: "none" (not made), "empty", "full"
            \* (one signal buffered) or "closed"
  sigPanic, \* TRUE once a signal was sent on the closed channel: the send
            \* panics and the runtime ends the process
  err,      \* the variable err of Listen, shared with its goroutine
  lpc,      \* position of the Listen caller
  lret,     \* value returned by the last Listen call
  gpc,      \* position of the goroutine started by Listen
  cpc,      \* position of the Close caller
  cret,     \* value returned by the last Close call
  cdid,     \* the teardown steps the current Close call has attempted
  closedBefore, \* TRUE once an earlier Close call has returned
  hpc,      \* position of each request handler
  uri,      \* r.RequestURI of each handler's request
  outcome,  \* what the lookup of each handler's request gave
  resp,     \* the response each handler wrote
  faults,   \* number of panics recovered by the handlers so far
  table,    \* the rows of the Links table: LinkName -> LinkURL
  aop,      \* the last administrative call: "none", "Add" or "Delete"
  aname,    \* the name given to the last Add or Delete call
  aret,     \* value returned by the last Add or Delete call
  aprep,    \* TRUE when the last Add or Delete call prepared a statement
  name,     \* a name given to isNameValid
  valid,    \* what isNameValid returned for name: "none" before the call,
            \* then "true" or "false"
  key       \* what serve does with the request "/" + name: state "none"
            \* before the request, "default" when it makes no lookup,
            \* "lookup" when it looks up the key x

lifecycle == <<db, get, ctx, server>>
sigVars == <<sig, sigPanic>>
listenVars == <<err, lpc, lret>>
closeVars == <<cpc, cret, cdid, closedBefore>>
handlerVars == <<hpc, uri, outcome, resp>>
adminVars == <<table, aop, aname, aret, aprep>>
nameVars == <<name, valid, key>>
vars == <<db, get, ctx, server, sig, sigPanic, err, lpc, lret, gpc, cpc, cret, cdid, closedBefore, hpc, uri, outcome, resp, faults, table, aop, aname, aret, aprep, name, valid, key>>

\* The state New returns, but for the database handle and the name under
\* validation: nothing prepared, server not started, the table as stored.
InitRest ==
  /\ get = "nil"
  /\ ctx = "nil"
  /\ server = "new"
  /\ sig = "none"
  /\ sigPanic = FALSE
  /\ err = "nil"
  /\ lpc = "idle"
  /\ lret = "none"
  /\ gpc = "none"
  /\ cpc = "idle"
  /\ cret = "none"
  /\ cdid = {}
  /\ closedBefore = FALSE
  /\ hpc = [h \in Handlers |-> "idle"]
  /\ uri = [h \in Handlers |-> <<>>]
  /\ outcome = [h \in Handlers |-> "none"]
  /\ resp = [h \in Handlers |-> NoResp]
  /\ faults = 0
  /\ table = Links
  /\ aop = "none"
  /\ aname = <<>>
  /\ aret = "none"
  /\ aprep = FALSE
  /\ valid = "none"
  /\ key = [state |-> "none", x |-> <<>>]

\* The state New returns: database open, nothing prepared, server not started.
Init ==
  /\ db = "open"
  /\ name = <<>>
  /\ InitRest

\* The process runs until a send on the closed signal channel panics.
Alive == ~sigPanic

\* A handler is in flight from the arrival of its request to its return; its
\* connection is active (not idle) for the server during that time.
InFlight == {h \in Handlers : hpc[h] # "idle"}

\* ------------------------------------------------------ net/http.Server
\* Server.Shutdown: the server stops listening; one that never listened
\* has no connection to wait for.
ShutdownBegin(sv) ==
  IF sv = "serving" THEN "draining"
  ELSE IF sv = "new" THEN "closed"
  ELSE sv

\* Server.Shutdown(c) returns once no connection is active or c is done.
ShutdownReturns(sv, c, active) ==
  sv = "closed" \/ active = {} \/ c = "cancelled"

\* What Server.Shutdown(c) returns: the context's error when connections
\* are still active, nil otherwise.
ShutdownResult(sv, c, active) ==
  IF sv # "closed" /\ active # {} THEN "Canceled" ELSE "nil"


\* ------------------------------------------------------------------ Listen
\* Listen without the test of l.get.
ListenCallUnguarded ==
  /\ Alive
  /\ lpc \in {"idle", "done"}
  /\ ctx' = "active"
  /\ err' = "nil"
  /\ lret' = "none"
  /\ lpc' = "prepare"
  /\ UNCHANGED <<db, get, server, sigVars, gpc, closeVars, handlerVars, adminVars, nameVars, faults>>

\* Listen, lines 187-191: refuse when a statement exists, else make the
\* context.
ListenCall ==
  /\ Alive
  /\ lpc \in {"idle", "done"}
  /\ IF get # "nil"
     THEN /\ lret' = "ErrNotConfigured"
          /\ lpc' = "done"
          /\ UNCHANGED <<ctx, err>>
     ELSE /\ ctx' = "active"
          /\ err' = "nil"
          /\ lret' = "none"
          /\ lpc' = "prepare"
  /\ UNCHANGED <<db, get, server, sigVars, gpc, closeVars, handlerVars, adminVars, nameVars, faults>>

\* Listen, lines 192-194: PrepareContext succeeds only on an open database
\* and a live context, and may fail even then.
ListenPrepare ==
  /\ Alive
  /\ lpc = "prepare"
  /\ \E ok \in BOOLEAN :
       IF ok /\ db = "open" /\ ctx = "active"
       THEN /\ get' = "open"
            /\ lpc' = "start"
            /\ UNCHANGED <<err, lret>>
       ELSE /\ get' = "nil"
            /\ err' = "PrepareFailed"
            /\ lret' = "PrepareFailed"
            /\ lpc' = "done"
  /\ UNCHANGED <<db, ctx, server, sigVars, gpc, closeVars, handlerVars, adminVars, nameVars, faults>>

\* Listen, lines 195-200: make the channel, subscribe to the signals, start
\* the goroutine.
ListenStart ==
  /\ Alive
  /\ lpc = "start"
  /\ sig' = "empty"
  /\ gpc' = "listen"
  /\ lpc' = "select"
  /\ UNCHANGED <<lifecycle, sigPanic, err, lret, closeVars, handlerVars, adminVars, nameVars, faults>>

\* Listen waiting for a signal alone.
ListenSelectSignalOnly ==
  /\ Alive
  /\ lpc = "select"
  /\ sig = "full"
  /\ sig' = "closed"
  /\ lpc' = "shutdown"
  /\ UNCHANGED <<lifecycle, sigPanic, err, lret, gpc, closeVars, handlerVars, adminVars, nameVars, faults>>

\* Listen, lines 201-205: wait for a signal or for the context, then close
\* the channel.
ListenSelect ==
  /\ Alive
  /\ lpc = "select"
  /\ sig = "full" \/ ctx = "cancelled"
  /\ sig' = "closed"
  /\ lpc' = "shutdown"
  /\ UNCHANGED <<lifecycle, sigPanic, err, lret, gpc, closeVars, handlerVars, adminVars, nameVars, faults>>

\* Listen, line 206: Shutdown stops the listeners ...
ListenShutdown ==
  /\ Alive
  /\ lpc = "shutdown"
  /\ server' = ShutdownBegin(server)
  /\ lpc' = "shutwait"
  /\ UNCHANGED <<db, get, ctx, sigVars, err, lret, gpc, closeVars, handlerVars, adminVars, nameVars, faults>>

\* ... and returns once the connections are idle or l.ctx is done.
ListenShutdownWait ==
  /\ Alive
  /\ lpc = "shutwait"
  /\ ShutdownReturns(server, ctx, InFlight)
  /\ lpc' = "close"
  /\ UNCHANGED <<lifecycle, sigVars, err, lret, gpc, closeVars, handlerVars, adminVars, nameVars, faults>>

\* Listen, line 207.
ListenServerClose ==
  /\ Alive
  /\ lpc = "close"
  /\ server' = "closed"
  /\ lpc' = "return"
  /\ UNCHANGED <<db, get, ctx, sigVars, err, lret, gpc, closeVars, handlerVars, adminVars, nameVars, faults>>

\* Listen, line 208: return err, read while the goroutine may be storing it.
ListenReturn ==
  /\ Alive
  /\ lpc = "return"
  /\ lret' = err
  /\ lpc' = "done"
  /\ UNCHANGED <<lifecycle, sigVars, err, gpc, closeVars, handlerVars, adminVars, nameVars, faults>>

\* ----------------------------------------------- the goroutine of Listen
\* Line 198: ListenAndServe starts serving, or returns at once because it
\* cannot bind or because the server was already shut down; the value it
\* returns is stored in err.
GoListen ==
  /\ Alive
  /\ gpc = "listen"
  /\ IF server = "new"
     THEN \/ /\ server' = "serving"
             /\ gpc' = "serve"
             /\ UNCHANGED err
          \/ /\ err' = "ListenFailed"
             /\ gpc' = "cancel"
             /\ UNCHANGED server
     ELSE /\ err' = "ErrServerClosed"
          /\ gpc' = "cancel"
          /\ UNCHANGED server
  /\ UNCHANGED <<db, get, ctx, sigVars, lpc, lret, closeVars, handlerVars, adminVars, nameVars, faults>>

\* Line 198: ListenAndServe returns once the server was shut down or closed,
\* and the value is stored in err.
GoServeEnd ==
  /\ Alive
  /\ gpc = "serve"
  /\ server \in {"draining", "closed"}
  /\ err' = "ErrServerClosed"
  /\ gpc' = "cancel"
  /\ UNCHANGED <<lifecycle, sigVars, lpc, lret, closeVars, handlerVars, adminVars, nameVars, faults>>

\* The goroutine without its call of x().
GoCancelMissing ==
  /\ Alive
  /\ gpc = "cancel"
  /\ gpc' = "done"
  /\ UNCHANGED <<lifecycle, sigVars, listenVars, closeVars, handlerVars, adminVars, nameVars, faults>>

\* Line 199: x().
GoCancel ==
  /\ Alive
  /\ gpc = "cancel"
  /\ ctx' = "cancelled"
  /\ gpc' = "done"
  /\ UNCHANGED <<db, get, server, sigVars, listenVars, closeVars, handlerVars, adminVars, nameVars, faults>>

\* ------------------------------------------------------------- OS signals
\* SIGINT, SIGTERM or SIGQUIT arrives after Notify: buffered when the channel
\* has room, dropped when it is full, a panic when it is closed.
Signal ==
  /\ Alive
  /\ sig \in {"empty", "closed"}
  /\ IF sig = "empty"
     THEN sig' = "full" /\ UNCHANGED sigPanic
     ELSE sigPanic' = TRUE /\ UNCHANGED sig
  /\ UNCHANGED <<lifecycle, listenVars, gpc, closeVars, handlerVars, adminVars, nameVars, faults>>


\* ------------------------------------------------------------------- Close
\* A call of Close begins.
CloseCall ==
  /\ Alive
  /\ cpc \in {"idle", "done"}
  /\ cpc' = "stmt"
  /\ cret' = "none"
  /\ cdid' = {}
  /\ closedBefore' = (closedBefore \/ cpc = "done")
  /\ UNCHANGED <<lifecycle, sigVars, listenVars, gpc, handlerVars, adminVars, nameVars, faults>>

\* Where Close goes after closing the statement: on to the database, or out
\* with the error.
CloseAfterStmt(failed) == IF failed THEN "done" ELSE "db"

\* Close, lines 145-149.  Stmt.Close waits for the queries running on the
\* statement; closing a statement that is open may fail, and the statement
\* counts as closed either way.
CloseStmt ==
  /\ Alive
  /\ cpc = "stmt"
  /\ IF get = "nil"
     THEN /\ cpc' = "db"
          /\ UNCHANGED <<get, cret, cdid>>
     ELSE /\ \A h \in Handlers : hpc[h] # "query"
          /\ get' = "closed"
          /\ cdid' = cdid \cup {"stmt"}
          /\ \E failed \in BOOLEAN :
               /\ failed => get = "open"
               /\ cpc' = CloseAfterStmt(failed)
               /\ cret' = IF failed THEN "StmtCloseFailed" ELSE cret
  /\ UNCHANGED <<db, ctx, server, sigVars, listenVars, gpc, closedBefore, handlerVars, adminVars, nameVars, faults>>

\* Where Close goes after closing the database.
CloseAfterDb(failed) == IF failed THEN "done" ELSE "ctx"

\* Close, lines 150-154.  Closing an open database may fail; the handle
\* counts as closed either way.
CloseDb ==
  /\ Alive
  /\ cpc = "db"
  /\ db' = "closed"
  /\ cdid' = cdid \cup {"db"}
  /\ \E failed \in BOOLEAN :
       /\ failed => db = "open"
       /\ cpc' = CloseAfterDb(failed)
       /\ cret' = IF failed THEN "DbCloseFailed" ELSE cret
  /\ UNCHANGED <<get, ctx, server, sigVars, listenVars, gpc, closedBefore, handlerVars, adminVars, nameVars, faults>>

\* Close, lines 155-161: nothing more without a context; past the first
\* Shutdown when the context is done; else cancel it.
CloseCancel ==
  /\ Alive
  /\ cpc = "ctx"
  /\ CASE ctx = "nil" ->
            /\ cret' = "nil"
            /\ cpc' = "done"
            /\ UNCHANGED <<ctx, cdid>>
       [] ctx = "cancelled" ->
            /\ cpc' = "shutdown2"
            /\ UNCHANGED <<ctx, cret, cdid>>
       [] OTHER ->
            /\ ctx' = "cancelled"
            /\ cdid' = cdid \cup {"cancel"}
            /\ cpc' = "shutdown1"
            /\ UNCHANGED cret
  /\ UNCHANGED <<db, get, server, sigVars, listenVars, gpc, closedBefore, handlerVars, adminVars, nameVars, faults>>

\* Where Close goes after the Shutdown of line 162.
CloseAfterShutdown(result) == IF result # "nil" THEN "done" ELSE "shutdown2"

\* Close, lines 162-164: Shutdown with the context just cancelled.
CloseShutdown ==
  /\ Alive
  /\ cpc = "shutdown1"
  /\ ShutdownReturns(server, ctx, InFlight)
  /\ server' = ShutdownBegin(server)
  /\ cdid' = cdid \cup {"shutdown"}
  /\ LET r == ShutdownResult(server, ctx, InFlight)
     IN  /\ cpc' = CloseAfterShutdown(r)
         /\ cret' = IF r # "nil" THEN "ShutdownFailed" ELSE cret
  /\ UNCHANGED <<db, get, ctx, sigVars, listenVars, gpc, closedBefore, handlerVars, adminVars, nameVars, faults>>

\* Close, line 166: Shutdown again, its result dropped.
CloseShutdownAgain ==
  /\ Alive
  /\ cpc = "shutdown2"
  /\ ShutdownReturns(server, ctx, InFlight)
  /\ server' = ShutdownBegin(server)
  /\ cdid' = cdid \cup {"shutdown"}
  /\ cpc' = "close"
  /\ UNCHANGED <<db, get, ctx, sigVars, listenVars, gpc, cret, closedBefore, handlerVars, adminVars, nameVars, faults>>

\* Close, line 167: Server.Close after Shutdown has closed the listeners
\* returns nil.
CloseServerClose ==
  /\ Alive
  /\ cpc = "close"
  /\ server' = "closed"
  /\ cdid' = cdid \cup {"close"}
  /\ cret' = "nil"
  /\ cpc' = "done"
  /\ UNCHANGED <<db, get, ctx, sigVars, listenVars, gpc, closedBefore, handlerVars, adminVars, nameVars, faults>>

\* ------------------------------------------------------------------- serve
\* The row the lookup statement yields for key x.
QueryRow(x) == SelectRow(table, x)

\* The error database/sql gives a query that cannot start: the statement is
\* closed, the context is done, or the database is closed.
QueryRefused(g, c, d) ==
  IF g # "open" THEN "StmtClosed"
  ELSE IF c # "active" THEN "Canceled"
  ELSE IF d # "open" THEN "DbClosed"
  ELSE "nil"

\* A request arrives on a server that has not dropped its connections, and
\* serve runs up to the lookup (lines 365-377).
Request(h, u) ==
  /\ Alive
  /\ hpc[h] = "idle"
  /\ server \in {"serving", "draining"}
  /\ uri' = [uri EXCEPT ![h] = u]
  /\ outcome' = [outcome EXCEPT ![h] = "none"]
  /\ IF ServeNoLookup(u)
     THEN /\ resp' = [resp EXCEPT ![h] = Redirect(DefaultURL, <<>>, FALSE)]
          /\ hpc' = [hpc EXCEPT ![h] = "done"]
     ELSE /\ resp' = [resp EXCEPT ![h] = NoResp]
          /\ hpc' = [hpc EXCEPT ![h] = "call"]
  /\ UNCHANGED <<lifecycle, sigVars, listenVars, gpc, closeVars, adminVars, nameVars, faults>>

\* serve, line 378: l.get.QueryRowContext(l.ctx, x) is called; the query is
\* refused at once or goes to the database.
QueryStart(h) ==
  /\ Alive
  /\ hpc[h] = "call"
  /\ LET e == QueryRefused(get, ctx, db)
     IN  IF e # "nil"
         THEN /\ outcome' = [outcome EXCEPT ![h] = e]
              /\ resp' = [resp EXCEPT ![h] = ServeError(uri[h], e)]
              /\ hpc' = [hpc EXCEPT ![h] = "done"]
         ELSE /\ hpc' = [hpc EXCEPT ![h] = "query"]
              /\ UNCHANGED <<outcome, resp>>
  /\ UNCHANGED <<lifecycle, sigVars, listenVars, gpc, closeVars, uri, adminVars, nameVars, faults>>

\* serve with n and x kept in variables that all handlers share: the
\* answer is built from the request of the first handler that is waiting.
QueryReturnShared(h) ==
  /\ Alive
  /\ hpc[h] = "query"
  /\ LET g == CHOOSE k \in Handlers :
                 hpc[k] = "query" /\ \A j \in Handlers : hpc[j] = "query" => k <= j
         r == QueryRow(ServeKey(uri[g]))
     IN  /\ outcome' = [outcome EXCEPT ![h] = IF r.err = "nil" THEN "Found" ELSE r.err]
         /\ resp' = [resp EXCEPT ![h] =
                       IF r.err = "nil" THEN ServeFound(uri[g], r.n)
                       ELSE ServeError(uri[g], r.err)]
  /\ hpc' = [hpc EXCEPT ![h] = "done"]
  /\ UNCHANGED <<lifecycle, sigVars, listenVars, gpc, closeVars, uri, adminVars, nameVars, faults>>

\* serve, lines 378-395: the database answers with the row, with no row, or
\* with a failure, and serve writes the response.
QueryReturn(h) ==
  /\ Alive
  /\ hpc[h] = "query"
  /\ \E failed \in BOOLEAN :
       LET r == IF failed THEN [err |-> "DbFailed", n |-> <<>>]
                ELSE QueryRow(ServeKey(uri[h]))
       IN  /\ outcome' = [outcome EXCEPT ![h] = IF r.err = "nil" THEN "Found" ELSE r.err]
           /\ resp' = [resp EXCEPT ![h] =
                         IF r.err = "nil" THEN ServeFound(uri[h], r.n)
                         ELSE ServeError(uri[h], r.err)]
  /\ hpc' = [hpc EXCEPT ![h] = "done"]
  /\ UNCHANGED <<lifecycle, sigVars, listenVars, gpc, closeVars, uri, adminVars, nameVars, faults>>

\* The query made without l.ctx (on the background context): cancelling
\* l.ctx does not end it.
QueryNotCancelled(h) ==
  /\ Alive
  /\ hpc[h] = "query"
  /\ "background" = "cancelled"
  /\ UNCHANGED vars

\* serve, lines 378-386: the context is cancelled while the query runs, the
\* driver drops the query and Scan returns the context's error.
QueryCancelled(h) ==
  /\ Alive
  /\ hpc[h] = "query"
  /\ ctx = "cancelled"
  /\ outcome' = [outcome EXCEPT ![h] = "Canceled"]
  /\ resp' = [resp EXCEPT ![h] = ServeError(uri[h], "Canceled")]
  /\ hpc' = [hpc EXCEPT ![h] = "done"]
  /\ UNCHANGED <<lifecycle, sigVars, listenVars, gpc, closeVars, uri, adminVars, nameVars, faults>>

\* A panic in serve that also calls l.cancel.
PanicCancels(h) ==
  /\ Alive
  /\ hpc[h] \in {"call", "query"}
  /\ faults < MaxFaults
  /\ faults' = faults + 1
  /\ ctx' = "cancelled"
  /\ outcome' = [outcome EXCEPT ![h] = "Panic"]
  /\ resp' = [resp EXCEPT ![h] = NoResp]
  /\ hpc' = [hpc EXCEPT ![h] = "done"]
  /\ UNCHANGED <<db, get, server, sigVars, listenVars, gpc, closeVars, uri, adminVars, nameVars>>

\* serve, lines 359-363: a panic raised while the lookup is called or runs
\* is recovered by the deferred function, which logs it; serve returns with
\* no response written.
Panic(h) ==
  /\ Alive
  /\ hpc[h] \in {"call", "query"}
  /\ faults < MaxFaults
  /\ faults' = faults + 1
  /\ outcome' = [outcome EXCEPT ![h] = "Panic"]
  /\ resp' = [resp EXCEPT ![h] = NoResp]
  /\ hpc' = [hpc EXCEPT ![h] = "done"]
  /\ UNCHANGED <<lifecycle, sigVars, listenVars, gpc, closeVars, uri, adminVars, nameVars>>

\* serve returns.
Finish(h) ==
  /\ Alive
  /\ hpc[h] = "done"
  /\ hpc' = [hpc EXCEPT ![h] = "idle"]
  /\ uri' = [uri EXCEPT ![h] = <<>>]
  /\ outcome' = [outcome EXCEPT ![h] = "none"]
  /\ resp' = [resp EXCEPT ![h] = NoResp]
  /\ UNCHANGED <<lifecycle, sigVars, listenVars, gpc, closeVars, adminVars, nameVars, faults>>

\* ------------------------------------------------------ Add, Delete, List
\* The rows t with the row of k set to u, and without the row of k.
WithRow(t, k, u) == [x \in DOMAIN t \cup {k} |-> IF x = k THEN u ELSE t[x]]
WithoutRow(t, k) == [x \in DOMAIN t \ {k} |-> t[x]]

\* Add, lines 306-324: parse the URL, prepare sqlAdd, execute it.  The
\* INSERT fails on a name that has a row (LinkName is UNIQUE), and may fail
\* for the database's own reasons.
AddStore(n, u) ==
  IF ParseFails(TrimSpace(u))
  THEN /\ aret' = "InvalidURL"
       /\ aprep' = FALSE
       /\ UNCHANGED table
  ELSE \E ok \in BOOLEAN :
         IF ~(ok /\ db = "open")
         THEN /\ aret' = "PrepareFailed"
              /\ aprep' = FALSE
              /\ UNCHANGED table
         ELSE /\ aprep' = TRUE
              /\ \E failed \in BOOLEAN :
                   IF failed \/ n \in DOMAIN table
                   THEN /\ aret' = "ExecFailed"
                        /\ UNCHANGED table
                   ELSE /\ aret' = "nil"
                        /\ table' = WithRow(table, n, StoredURL(u))

\* Add without its two guards.
AddUnchecked(n, u) ==
  /\ Alive
  /\ aop' = "Add"
  /\ aname' = n
  /\ AddStore(n, u)
  /\ UNCHANGED <<lifecycle, sigVars, listenVars, gpc, closeVars, handlerVars, nameVars, faults>>

\* Add, lines 299-325.
Add(n, u) ==
  /\ Alive
  /\ aop' = "Add"
  /\ aname' = n
  /\ IF db = "nil"
     THEN /\ aret' = "ErrNotConfigured"
          /\ aprep' = FALSE
          /\ UNCHANGED table
     ELSE IF ~isNameValid(n)
     THEN /\ aret' = "ErrInvalidName"
          /\ aprep' = FALSE
          /\ UNCHANGED table
     ELSE AddStore(n, u)
  /\ UNCHANGED <<lifecycle, sigVars, listenVars, gpc, closeVars, handlerVars, nameVars, faults>>

\* Delete, lines 329-348: the DELETE passes when the name has no row.
Delete(n) ==
  /\ Alive
  /\ aop' = "Delete"
  /\ aname' = n
  /\ IF db = "nil"
     THEN /\ aret' = "ErrNotConfigured"
          /\ aprep' = FALSE
          /\ UNCHANGED table
     ELSE IF ~isNameValid(n)
     THEN /\ aret' = "ErrInvalidName"
          /\ aprep' = FALSE
          /\ UNCHANGED table
     ELSE \E ok \in BOOLEAN :
            IF ~(ok /\ db = "open")
            THEN /\ aret' = "PrepareFailed"
                 /\ aprep' = FALSE
                 /\ UNCHANGED table
            ELSE /\ aprep' = TRUE
                 /\ \E failed \in BOOLEAN :
                      IF failed
                      THEN /\ aret' = "ExecFailed"
                           /\ UNCHANGED table
                      ELSE /\ aret' = "nil"
                           /\ table' = WithoutRow(table, n)
  /\ UNCHANGED <<lifecycle, sigVars, listenVars, gpc, closeVars, handlerVars, nameVars, faults>>

\* List, lines 115-140: prints the rows; it takes no name and changes no row.
List ==
  /\ Alive
  /\ aop' = "List"
  /\ IF db = "nil"
     THEN /\ aret' = "ErrNotConfigured"
          /\ aprep' = FALSE
     ELSE \E ok \in BOOLEAN :
            IF ~(ok /\ db = "open")
            THEN /\ aret' = "PrepareFailed"
                 /\ aprep' = FALSE
            ELSE /\ aprep' = TRUE
                 /\ \E failed \in BOOLEAN :
                      aret' = IF failed THEN "QueryFailed" ELSE "nil"
  /\ UNCHANGED <<lifecycle, sigVars, listenVars, gpc, closeVars, handlerVars, table, aname, nameVars, faults>>

\* ------------------------------------------------------- the two alphabets
\* isNameValid is called on name.
Validate ==
  /\ valid = "none"
  /\ valid' = IF isNameValid(name) THEN "true" ELSE "false"
  /\ UNCHANGED <<lifecycle, sigVars, listenVars, gpc, closeVars, handlerVars, adminVars, name, key, faults>>

\* serve, lines 365-377, on the request "/" + name: the key it looks up,
\* unless it answers with the default redirect before any lookup.
Match ==
  /\ key.state = "none"
  /\ key' = IF ServeNoLookup(<<"/">> \o name)
            THEN [state |-> "default", x |-> <<>>]
            ELSE [state |-> "lookup", x |-> ServeKey(<<"/">> \o name)]
  /\ UNCHANGED <<lifecycle, sigVars, listenVars, gpc, closeVars, handlerVars, adminVars, name, valid, faults>>

\* ---------------------------------------------------------- specifications
RECURSIVE SeqsUpTo(_, _)
SeqsUpTo(S, n) ==
  IF n = 0 THEN {<<>>}
  ELSE LET shorter == SeqsUpTo(S, n - 1)
       IN  shorter \cup {Append(s, c) : s \in shorter, c \in S}

\* Every request URI of at most MaxUriLen characters.
AllURIs == SeqsUpTo(UriChars, MaxUriLen)

\* The request URIs of the concurrent specification: two names that have a
\* row, one of them followed by a suffix.
SomeURIs == {<<"/","a">>, <<"/","b","&">>}

Next ==
  \/ ListenCall \/ ListenPrepare \/ ListenStart \/ ListenSelect
  \/ ListenShutdown \/ ListenShutdownWait \/ ListenServerClose \/ ListenReturn
  \/ GoListen \/ GoServeEnd \/ GoCancel
  \/ Signal
  \/ CloseCall \/ CloseStmt \/ CloseDb \/ CloseCancel
  \/ CloseShutdown \/ CloseShutdownAgain \/ CloseServerClose
  \/ \E h \in Handlers : \E u \in SomeURIs : Request(h, u)
  \/ \E h \in Handlers : QueryStart(h)
  \/ \E h \in Handlers : QueryReturn(h)
  \/ \E h \in Handlers : QueryCancelled(h)
  \/ \E h \in Handlers : Finish(h)

Spec == Init /\ [][Next]_vars


\* One handler, every request URI of at most MaxUriLen characters, the whole
\* lifecycle around it.
NextServe ==
  \/ ListenCall \/ ListenPrepare \/ ListenStart \/ ListenSelect
  \/ ListenShutdown \/ ListenShutdownWait \/ ListenServerClose \/ ListenReturn
  \/ GoListen \/ GoServeEnd \/ GoCancel
  \/ Signal
  \/ CloseCall \/ CloseStmt \/ CloseDb \/ CloseCancel
  \/ CloseShutdown \/ CloseShutdownAgain \/ CloseServerClose
  \/ \E u \in AllURIs : Request(1, u)
  \/ QueryStart(1)
  \/ QueryReturn(1)
  \/ QueryCancelled(1)
  \/ Finish(1)

SpecServe == Init /\ [][NextServe]_vars

\* The request URI of the fair specification.
LiveURIs == {<<"/","a">>}

NextFair ==
  \/ ListenCall \/ ListenPrepare \/ ListenStart \/ ListenSelect
  \/ ListenShutdown \/ ListenShutdownWait \/ ListenServerClose \/ ListenReturn
  \/ GoListen \/ GoServeEnd \/ GoCancel
  \/ Signal
  \/ CloseCall \/ CloseStmt \/ CloseDb \/ CloseCancel
  \/ CloseShutdown \/ CloseShutdownAgain \/ CloseServerClose
  \/ \E h \in Handlers : \E u \in LiveURIs : Request(h, u)
  \/ \E h \in Handlers : QueryStart(h)
  \/ \E h \in Handlers : QueryReturn(h)
  \/ \E h \in Handlers : QueryCancelled(h)
  \/ \E h \in Handlers : Finish(h)

\* The Go scheduler runs every goroutine that can take a step: a call of
\* Listen or Close that has begun goes on, the goroutine of Listen goes on,
\* a handler goes on up to its query, gives up a cancelled query and
\* returns.  Nothing makes a caller call Listen or Close, a signal or a
\* request arrive, or the database answer.
Fairness ==
  /\ WF_vars(ListenPrepare) /\ WF_vars(ListenStart) /\ WF_vars(ListenSelect)
  /\ WF_vars(ListenShutdown) /\ WF_vars(ListenShutdownWait)
  /\ WF_vars(ListenServerClose) /\ WF_vars(ListenReturn)
  /\ WF_vars(GoListen) /\ WF_vars(GoServeEnd) /\ WF_vars(GoCancel)
  /\ WF_vars(CloseStmt) /\ WF_vars(CloseDb) /\ WF_vars(CloseCancel)
  /\ WF_vars(CloseShutdown) /\ WF_vars(CloseShutdownAgain)
  /\ WF_vars(CloseServerClose)
  /\ \A h \in Handlers :
       WF_vars(QueryStart(h)) /\ WF_vars(QueryCancelled(h)) /\ WF_vars(Finish(h))

FairSpec == Init /\ [][NextFair]_vars /\ Fairness


\* The request URI of the specification with handlers that may panic: a
\* name that has a row, followed by a suffix.
FaultURIs == {<<"/","b","&">>}

\* The concurrent specification with handlers that may panic.
NextFault ==
  \/ ListenCall \/ ListenPrepare \/ ListenStart \/ ListenSelect
  \/ ListenShutdown \/ ListenShutdownWait \/ ListenServerClose \/ ListenReturn
  \/ GoListen \/ GoServeEnd \/ GoCancel
  \/ Signal
  \/ CloseCall \/ CloseStmt \/ CloseDb \/ CloseCancel
  \/ CloseShutdown \/ CloseShutdownAgain \/ CloseServerClose
  \/ \E h \in Handlers : \E u \in FaultURIs : Request(h, u)
  \/ \E h \in Handlers : QueryStart(h)
  \/ \E h \in Handlers : QueryReturn(h)
  \/ \E h \in Handlers : QueryCancelled(h)
  \/ \E h \in Handlers : Panic(h)
  \/ \E h \in Handlers : Finish(h)

SpecFault == Init /\ [][NextFault]_vars

\* ------------------------------------------------- the administrative calls
\* The names and the URLs given to Add and Delete.
AdminNames ==
  {<<>>, <<"a">>, <<"c">>, <<"c","_">>, <<"{">>, <<"c","|">>, <<"\t">>, <<"/">>}
AddURLs == {<<"X">>, <<" ","X">>, <<"h",":","X">>, <<"%">>}

\* A Linker made by New, or one made without New that has no database.
InitAdmin ==
  /\ db \in {"open", "nil"}
  /\ name = <<>>
  /\ InitRest

NextAdmin ==
  \/ \E n \in AdminNames : \E u \in AddURLs : Add(n, u)
  \/ \E n \in AdminNames : Delete(n)
  \/ List

SpecAdmin == InitAdmin /\ [][NextAdmin]_vars

\* ------------------------------------------------------ the names checked
\* The characters of the names: the printable ASCII characters and the two
\* control characters.
NameChars == {Printable[i] : i \in 1..Len(Printable)} \cup Controls

\* The characters of the longer names: the blacklist, the control
\* characters, the first and the last digit and letters, and four other
\* characters below the range of isNameValid.
LongNameChars ==
  Blacklist \cup Controls \cup {"0", "9", "A", "Z", "a", "z", " ", "&", "-", "/"}

\* Every name of one character, and every name of at most MaxNameLen of the
\* characters above.
Names == {<<c>> : c \in NameChars} \cup SeqsUpTo(LongNameChars, MaxNameLen)

InitNames ==
  /\ db = "open"
  /\ name \in Names
  /\ InitRest

NextNames == Validate \/ Match

SpecNames == InitNames /\ [][NextNames]_vars


\* ------------------------------------------------------------------ claims
\* The name and the suffix of a request URI "/" + name + suffix, read off
\* the request as it arrived: the alphanumerics after the slash, and what
\* follows them.
RawName(u) == SubSeq(u, 2, 1 + AlnumRun(u, 2))
RawSuffix(u) == SubSeq(u, 2 + AlnumRun(u, 2), Len(u))
HasName(u) == Len(u) >= 2 /\ u[1] = "/" /\ AlnumRun(u, 2) >= 1

\* Listen has started the server's goroutine: the service is, or was,
\* listening.
Started == gpc # "none"

\* A step of the Close caller inside a call.
CloseStep == cpc \notin {"idle", "done"} /\ cpc' # cpc

\* C1: in every shutdown of a service that was started, the context is
\* cancelled before the server is told to stop, the server is told to stop
\* before the statement is closed, and the statement is closed before the
\* database is.
C1_ShutdownOrder ==
  [][ Started =>
        /\ (server = "serving" /\ server' = "draining") => ctx = "cancelled"
        /\ (get = "open" /\ get' = "closed") => server \in {"draining", "closed"}
        /\ (db = "open" /\ db' = "closed") => get = "closed"
    ]_vars

\* C2: a handler calls the lookup statement only while the statement is
\* open and the context is live, and the statement is closed only after the
\* context was cancelled.
C2_NoUseAfterClose ==
  [][ Started =>
        /\ \A h \in Handlers :
              (hpc[h] = "call" /\ hpc'[h] # "call") => (get = "open" /\ ctx = "active")
        /\ (get = "open" /\ get' = "closed") => ctx = "cancelled"
    ]_vars

\* C3: a Close call in which closing the statement or the database failed
\* has still attempted the database close and, when there is a context, the
\* server shutdown and the server close, with the context cancelled.
C3_CloseBestEffort ==
  (Started /\ cpc = "done" /\ cret \in {"StmtCloseFailed", "DbCloseFailed"})
    => /\ "db" \in cdid
       /\ ctx # "nil" => (ctx = "cancelled" /\ {"shutdown", "close"} \subseteq cdid)

\* C4: while Listen waits in its select, a Close call made after an earlier
\* Close call has returned changes nothing of the database, the statement,
\* the context and the server, and returns nil.
C4_CloseIdempotent ==
  [][ (closedBefore /\ lpc = "select" /\ CloseStep)
        => /\ lifecycle' = lifecycle
           /\ cpc' = "done" => cret' = "nil"
    ]_vars

FullyClosed == get = "closed" /\ db = "closed" /\ server = "closed"

ShutdownBegun == lpc = "select" /\ (sig = "full" \/ ctx = "cancelled")

C6_SuffixVerbatim ==
  \A h \in Handlers :
    (hpc[h] = "done" /\ outcome[h] = "Found" /\ HasName(uri[h])
       /\ RawName(uri[h]) \in LinkNames /\ Links[RawName(uri[h])] # <<>>)
      => /\ resp[h].status = StatusTemporaryRedirect
         /\ resp[h].target = Links[RawName(uri[h])] \o RawSuffix(uri[h])

LookupFailures == {"StmtClosed", "Canceled", "DbClosed", "DbFailed"}

\* C7: after a lookup, no row or an empty URL gives a 307 to the default
\* URL; any other lookup error gives a 500 that names the key and no
\* redirect; only a row with a non-empty URL gives a 307 to that URL
\* (followed by the rest of the request).
C7_ThreeOutcomes ==
  \A h \in Handlers :
    (hpc[h] = "done" /\ resp[h].looked)
      => LET k == RawName(uri[h])
             r == resp[h]
         IN  /\ outcome[h] \in {"Found", "ErrNoRows"} \cup LookupFailures
             /\ (outcome[h] = "ErrNoRows" \/ (outcome[h] = "Found" /\ Links[k] = <<>>))
                  => (r.status = StatusTemporaryRedirect /\ r.target = DefaultURL)
             /\ outcome[h] \in LookupFailures
                  => (r.status = StatusInternalServerError /\ r.body = k
                      /\ r.target = <<>>)
             /\ (outcome[h] = "Found" /\ Links[k] # <<>>)
                  => (r.status = StatusTemporaryRedirect
                      /\ SubSeq(r.target, 1, Len(Links[k])) = Links[k])
             /\ (r.status = StatusTemporaryRedirect /\ r.target # DefaultURL)
                  => (outcome[h] = "Found" /\ k \in LinkNames /\ Links[k] # <<>>)

\* A lookup made on the closed statement was answered with a 500.
C7_Witness ==
  \E h \in Handlers :
    /\ hpc[h] = "done" /\ outcome[h] = "StmtClosed"
    /\ resp[h].status = StatusInternalServerError

\* C8: a request URI of at most one character is answered by a 307 to the
\* default URL with no lookup, whatever the state of the statement, the
\* context and the server.
C8_RootDefault ==
  \A h \in Handlers :
    (hpc[h] = "done" /\ Len(uri[h]) <= 1)
      => /\ resp[h] = [status |-> StatusTemporaryRedirect, target |-> DefaultURL,
                       body |-> <<>>, key |-> <<>>, looked |-> FALSE]
         /\ outcome[h] = "none"

\* A request for "/" was answered while the statement is closed and the
\* context cancelled.
C8_Witness ==
  \E h \in Handlers :
    /\ hpc[h] = "done" /\ uri[h] = <<"/">>
    /\ get = "closed" /\ ctx = "cancelled" /\ server = "draining"

\* C9: once the context is cancelled while handlers are blocked in their
\* lookups, a state follows in which no handler is blocked in a lookup (or
\* the process has ended).
C9_CancelUnblocks ==
  (ctx = "cancelled" /\ \E h \in Handlers : hpc[h] = "query")
    ~> (sigPanic \/ \A h \in Handlers : hpc[h] # "query")

\* The context is cancelled while every handler is blocked in its lookup.
C9_Witness == ctx = "cancelled" /\ \A h \in Handlers : hpc[h] = "query"

\* C10: whatever the other handlers do, the redirect a handler sends after
\* finding its row is the URL of its own request's name followed by its own
\* request's (escaped) suffix.
C10_NoCrossTalk ==
  \A h \in Handlers :
    (hpc[h] = "done" /\ outcome[h] = "Found")
      => /\ RawName(uri[h]) \in LinkNames
         /\ resp[h].key = RawName(uri[h])
         /\ resp[h].target =
              IF Links[RawName(uri[h])] = <<>> THEN DefaultURL
              ELSE Links[RawName(uri[h])] \o EscapeString(RawSuffix(uri[h]))

\* Two handlers have answered requests for two different names at once.
C10_Witness ==
  /\ hpc[1] = "done" /\ outcome[1] = "Found" /\ uri[1] = <<"/","a">>
  /\ hpc[2] = "done" /\ outcome[2] = "Found" /\ uri[2] = <<"/","b","&">>

\* C11: a call of Add or Delete on an instance with no database returns
\* ErrNotConfigured whatever the name; on an instance with a database, a
\* call with a name isNameValid refuses returns ErrInvalidName; in both
\* cases no statement is prepared and no row changes.
C11_InvalidNameRejected ==
  [][ (aop' \in {"Add", "Delete"} /\ adminVars' # adminVars)
        => /\ db = "nil"
                => (aret' = "ErrNotConfigured" /\ ~aprep' /\ table' = table)
           /\ (db # "nil" /\ ~isNameValid(aname'))
                => (aret' = "ErrInvalidName" /\ ~aprep' /\ table' = table)
    ]_vars

\* Add was refused for the name "c_" after a row was stored for "c".
C11_Witness ==
  /\ db = "open" /\ aop = "Add" /\ aname = <<"c","_">>
  /\ aret = "ErrInvalidName" /\ <<"c">> \in DOMAIN table

\* C12: isNameValid refuses every name that holds a blacklisted character
\* or a control character, and accepts every name made of ASCII letters and
\* digits only, the empty name included.
C12_ValidatorAlphabet ==
  valid # "none"
    => /\ (\E i \in 1..Len(name) : name[i] \in Blacklist \cup Controls)
            => valid = "false"
       /\ (\A i \in 1..Len(name) : name[i] \in Alnum) => valid = "true"

\* isNameValid has refused a name whose only fault is the brace, the one
\* blacklisted character at the end of the range 48..123.
C12_Witness == name = <<"Z","{">> /\ valid = "false"

\* C13: a Listen call that returns without waiting returns an error; a
\* Listen call leaves its wait only when a signal is buffered, Close has been
\* called, or ListenAndServe has failed; and once ListenAndServe has failed,
\* the Listen call in progress returns that failure (unless one more signal
\* ends the process).
C13_ListenReturnCauses ==
  /\ [][ /\ (lpc \notin {"return", "done"} /\ lpc' = "done")
              => lret' \in {"ErrNotConfigured", "PrepareFailed"}
         /\ (lpc = "select" /\ lpc' # lpc)
              => (sig = "full" \/ cpc # "idle" \/ err = "ListenFailed")
         /\ (lpc = "return" /\ lpc' = "done" /\ err = "ListenFailed")
              => lret' = "ListenFailed"
       ]_vars
  /\ (gpc = "cancel" /\ err = "ListenFailed" /\ lpc # "done")
       ~> (sigPanic \/ (lpc = "done" /\ lret = "ListenFailed"))

\* Listen has returned the failure of ListenAndServe, with no signal sent
\* and no Close call made.
C13_Witness ==
  /\ lpc = "done" /\ lret = "ListenFailed" /\ gpc = "done"
  /\ cpc = "idle" /\ ~sigPanic /\ server = "closed"

\* C14: whenever the database is closed, the lookup statement does not
\* exist or is closed.
C14_StmtWithinDb == db = "closed" => get \in {"nil", "closed"}

\* The response serve owes the request of handler h, given what its lookup
\* gave.
RightResponse(h) ==
  LET k == RawName(uri[h])
  IN  CASE outcome[h] = "none" -> Redirect(DefaultURL, <<>>, FALSE)
        [] outcome[h] = "ErrNoRows" -> Redirect(DefaultURL, k, TRUE)
        [] outcome[h] = "Found" ->
             IF table[k] = <<>> THEN Redirect(DefaultURL, k, TRUE)
             ELSE Redirect(table[k] \o EscapeString(RawSuffix(uri[h])), k, TRUE)
        [] OTHER -> ServerError(k)

\* C15: a panic in a handler changes nothing but that handler's own state;
\* after it, a request that reaches the listening server is still accepted,
\* and every response written is the one its request is owed.
C15_PanicContained ==
  /\ [][ faults' # faults
           => /\ lifecycle' = lifecycle /\ sigVars' = sigVars
              /\ listenVars' = listenVars /\ gpc' = gpc
              /\ closeVars' = closeVars /\ table' = table
              /\ \A h \in Handlers :
                   hpc'[h] # hpc[h] => (outcome'[h] = "Panic" /\ hpc'[h] = "done")
       ]_vars
  /\ [](faults > 0
          => \A h \in Handlers :
               /\ (hpc[h] = "idle" /\ server = "serving" /\ ~sigPanic)
                    => \A u \in FaultURIs : ENABLED Request(h, u)
               /\ (hpc[h] = "done" /\ outcome[h] # "Panic")
                    => resp[h] = RightResponse(h))

\* After a recovered panic, every handler has answered a request with the
\* redirect of its row: the handler that panicked has served a later request.
C15_Witness ==
  /\ faults > 0
  /\ \A h \in Handlers :
       hpc[h] = "done" /\ outcome[h] = "Found" /\ resp[h] = RightResponse(h)
  /\ server = "serving" /\ get = "open" /\ ctx = "active" /\ db = "open"

\* x is the key of the request u: not empty, alphanumeric, and the whole run
\* of alphanumerics that follows the leading slash of u.
IsKeyOf(x, u) ==
  /\ x # <<>>
  /\ \A i \in 1..Len(x) : x[i] \in Alnum
  /\ Len(u) >= 1 + Len(x) /\ u[1] = "/"
  /\ x = SubSeq(u, 2, 1 + Len(x))
  /\ (Len(u) = 1 + Len(x) \/ u[2 + Len(x)] \notin Alnum)

\* C16: the key a handler passes to the lookup statement, and the key a 500
\* response names, is not empty, holds ASCII letters and digits only, and is
\* the whole run of alphanumerics after the leading slash of the request.
C16_KeyAlphanumeric ==
  \A h \in Handlers :
    /\ hpc[h] \in {"call", "query"} => IsKeyOf(ServeKey(uri[h]), uri[h])
    /\ (hpc[h] = "done" /\ resp[h].looked)
         => /\ IsKeyOf(resp[h].key, uri[h])
            /\ resp[h].status = StatusInternalServerError
                 => resp[h].body = resp[h].key

\* A failed lookup for "/ab" was answered with a 500 naming "ab".
C16_Witness ==
  \E h \in Handlers :
    /\ hpc[h] = "done" /\ uri[h] = <<"/","a","b">>
    /\ resp[h].status = StatusInternalServerError /\ resp[h].body = <<"a","b">>

\* C17: for a name isNameValid accepts, the request "/" + name looks up
\* exactly that name when the name is not empty, and makes no lookup when
\* it is empty; and no request "/" + name looks up the empty key.
C17_AlphabetsAgree ==
  (valid # "none" /\ key.state # "none")
    => /\ (valid = "true" /\ name # <<>>)
            => key = [state |-> "lookup", x |-> name]
       /\ (valid = "true" /\ name = <<>>) => key.state = "default"
       /\ key.state = "lookup" => key.x # <<>>

\* The name "aZ" was accepted and the request "/aZ" looks up "aZ".
C17_Witness ==
  /\ name = <<"a","Z">> /\ valid = "true"
  /\ key = [state |-> "lookup", x |-> <<"a","Z">>]

\* A Close call has returned nil and no other is running.
ClosedOk == cpc = "done" /\ cret = "nil"

\* C18: once a Close call has returned nil the database is closed and the
\* server is not serving; the database stays closed; and a Listen call made
\* on the closed database never starts the server: it returns
\* ErrNotConfigured and changes nothing when a statement exists, and
\* returns the failure of PrepareContext otherwise.
C18_ClosedIsTerminal ==
  /\ [](ClosedOk => (db = "closed" /\ server # "serving"))
  /\ [][ db = "closed"
           => /\ db' = "closed"
              /\ (lpc \in {"idle", "done"} /\ (lpc' # lpc \/ lret' # lret))
                   => IF get # "nil"
                      THEN /\ lret' = "ErrNotConfigured" /\ lpc' = "done"
                           /\ lifecycle' = lifecycle
                      ELSE lpc' = "prepare"
              /\ (lpc = "prepare" /\ lpc' # lpc)
                   => /\ lret' = "PrepareFailed" /\ lpc' = "done"
                      /\ <<db, get, server>>' = <<db, get, server>>
              /\ (lpc \in {"idle", "done", "prepare"} /\ server # "serving")
                   => server' # "serving"
       ]_vars

\* Close returned nil on an instance that never listened, and the Listen
\* call made afterwards has returned the failure of PrepareContext.
C18_Witness ==
  /\ ClosedOk /\ ~closedBefore
  /\ lpc = "done" /\ lret = "PrepareFailed" /\ ctx = "active"
  /\ get = "nil" /\ db = "closed" /\ server = "new"

\* C19: no signal is sent on the channel of Listen after Listen has closed
\* it.
C19_NoSendOnClosed == ~sigPanic

\* C20: once Listen has returned from its wait and its goroutine has ended
\* after a shutdown with no listener failure, the value Listen returned is
\* the one the goroutine stored in err, whatever the order of the two.
C20_ReturnIndependent ==
  (Started /\ lpc = "done" /\ gpc = "done" /\ err = "ErrServerClosed"
     /\ lret # "ErrNotConfigured")
    => lret = err

====
